---- MODULE Spec2Model ----
(***************************************************************************)
(* Model of torch-classification: the CIFAR100 dataset class and the       *)
(* split / loader builder of src/data/dataset.py, and the training script  *)
(* src/train.py that wires them to the trainer.                            *)
(*                                                                         *)
(* Three state machines share the module:                                  *)
(*   Spec        - one call of get_cifar100_loaders, then passes over the  *)
(*                 returned loaders;                                       *)
(*   SpecDataset - a CIFAR100 object: construction, then index accesses;   *)
(*   SpecTrain   - one run of the script: argument check, then train().    *)
(*                                                                         *)
(* Conventions.  Python values that may be of more than one type are       *)
(* tagged records [t, v]: an int, a transform object, or None.  A record   *)
(* index of a dataset is a number 1..n (Python's 0..n-1 shifted by one).   *)
(* val_size is a rational <<num, den>> with den > 0.  Files named by the   *)
(* code are assumed present and well formed.                               *)
(***************************************************************************)
EXTENDS Integers, Sequences, FiniteSets, TLC

VARIABLES
    \* ---- get_cifar100_loaders: one call ----
    pc,              \* "idle", "returned" or "raised"
    pool,            \* number of records in the train archive / train folder
    tpool,           \* number of records in the test archive / test folder
    args,            \* the parameters of the call
    reads,           \* the files and directories read, in order
    train_dataset,   \* local train_dataset when the call ended
    val_dataset,     \* local val_dataset when the call ended
    test_dataset,    \* local test_dataset when the call ended
    train_loader,    \* local train_loader when the call ended
    val_loader,      \* local val_loader when the call ended
    test_loader,     \* local test_loader when the call ended
    steps_per_epoch, \* fourth element of the returned tuple, tagged
    error,           \* "none", or the exception that ended the call
    test_passes,     \* record order of the last passes over test_loader
    train_pass,      \* record order of the last pass over train_loader
    \* ---- CIFAR100 object ----
    ds,              \* the object's fields
    archive,         \* the raw images of the archive on disk
    tf_calls,        \* every invocation of the transform: its argument
    accesses,        \* every index accessed, in order
    item,            \* the value of the last __getitem__
    \* ---- train.py: one run ----
    t_pc,            \* "parsed", "done" or "raised"
    cli,             \* the parsed command line merged into cfg
    bound,           \* parameter binding of train()'s call of get_cifar100_loaders
    engine,          \* the trainer calls made, in order
    t_error          \* "none", or the exception that ended the run

loaderVars == <<pc, pool, tpool, args, reads, train_dataset, val_dataset,
                test_dataset, train_loader, val_loader, test_loader,
                steps_per_epoch, error, test_passes, train_pass>>
datasetVars == <<ds, archive, tf_calls, accesses, item>>
trainVars == <<t_pc, cli, bound, engine, t_error>>
vars == <<loaderVars, datasetVars, trainVars>>

----------------------------------------------------------------------------
(* Bounds of the model *)

MaxPool == 3
MaxTest == 2
MaxBatch == 2
MaxPasses == 2
MaxAccess == 3
MaxImages == 2

----------------------------------------------------------------------------
(* Python values *)

IntVal(n) == [t |-> "int", v |-> n]
Tf(n) == [t |-> "transform", v |-> n]
Str(n) == [t |-> "str", v |-> n]
None == [t |-> "none", v |-> 0]
IsInt(x) == x.t = "int"

Min(a, b) == IF a < b THEN a ELSE b
Max(a, b) == IF a > b THEN a ELSE b

Range(s) == {s[i] : i \in 1..Len(s)}
Iota(n) == [i \in 1..n |-> i]
Perms(n) == {p \in [1..n -> 1..n] : Range(p) = 1..n}

\* s[a:b] of Python, a and b counted from 0, negative ones from the end.
PyIndex(i, n) == IF i < 0 THEN Max(0, n + i) ELSE Min(i, n)
PySlice(s, a, b) ==
    LET lo == PyIndex(a, Len(s))
        hi == PyIndex(b, Len(s))
    IN  IF lo < hi THEN SubSeq(s, lo + 1, hi) ELSE <<>>

\* int(x) of Python on the rational num/den, den > 0: truncation toward zero.
PyInt(num, den) == IF num >= 0 THEN num \div den ELSE -((-num) \div den)

\* a // b of Python on ints, b > 0: floor division.
FloorDiv(a, b) == a \div b

----------------------------------------------------------------------------
(* Datasets *)

\* A dataset object: its class, the records it yields in index order (as
\* record numbers of its archive or folder) and its transform.
Dataset(kind, indices, transform) ==
    [kind |-> kind, indices |-> indices, transform |-> transform]
NoDataset == Dataset("None", <<>>, None)
Unbound == Dataset("Unbound", <<>>, None)
DsLen(d) == Len(d.indices)

\* CIFAR100(root, train, transform): _load_data reads the split's archive,
\* then _load_meta reads the meta file.
CIFAR100Reads(train) ==
    << IF train THEN "cifar-100-python/train" ELSE "cifar-100-python/test",
       "cifar-100-python/meta" >>
CIFAR100Object(n, transform) == Dataset("CIFAR100", Iota(n), transform)

\* ImageFolder(os.path.join(root, split), transform): scans the directory.
ImageFolderReads(train) == << IF train THEN "train/" ELSE "test/" >>
ImageFolderObject(n, transform) == Dataset("ImageFolder", Iota(n), transform)

\* random_split(dataset, lengths) with the permutation perm it draws: the
\* lengths must sum to the dataset's length, and subset k is
\* indices[offset_k - length_k : offset_k].
RandomSplit(dataset, train_size, val_count, perm) ==
    IF train_size + val_count # DsLen(dataset)
    THEN [err |-> "ValueError", train |-> Unbound, val |-> Unbound]
    ELSE LET indices == [i \in 1..DsLen(dataset) |-> dataset.indices[perm[i]]]
         IN  [err |-> "none",
              train |-> Dataset("Subset",
                                PySlice(indices, train_size - train_size, train_size),
                                dataset.transform),
              val |-> Dataset("Subset",
                              PySlice(indices, (train_size + val_count) - val_count,
                                      train_size + val_count),
                              dataset.transform)]

\* Variant: the validation count rounded to nearest instead of truncated.
ValCountRounded(n, val_size) ==
    PyInt(2 * n * val_size[1] + val_size[2], 2 * val_size[2])

ValCount(n, val_size) == PyInt(n * val_size[1], val_size[2])
ValPositive(val_size) == val_size[1] > 0

\* The split shared by get_cifar100_dataset and get_imagefolder_dataset.
SplitTrainVal(train_full, val_size, perm) ==
    IF ValPositive(val_size)
    THEN LET val_count == ValCount(DsLen(train_full), val_size)
             train_size == DsLen(train_full) - val_count
         IN  RandomSplit(train_full, train_size, val_count, perm)
    ELSE [err |-> "none", train |-> train_full, val |-> NoDataset]

get_cifar100_dataset(train_transform, test_transform, val_size, perm) ==
    LET train_full == CIFAR100Object(pool, train_transform)
        test_full == CIFAR100Object(tpool, test_transform)
        s == SplitTrainVal(train_full, val_size, perm)
    IN  [err |-> s.err, train |-> s.train, val |-> s.val,
         test |-> test_full,
         reads |-> CIFAR100Reads(TRUE) \o CIFAR100Reads(FALSE)]

get_imagefolder_dataset(train_transform, test_transform, val_size, perm) ==
    LET train_full == ImageFolderObject(pool, train_transform)
        test_full == ImageFolderObject(tpool, test_transform)
        s == SplitTrainVal(train_full, val_size, perm)
    IN  [err |-> s.err, train |-> s.train, val |-> s.val,
         test |-> test_full,
         reads |-> ImageFolderReads(TRUE) \o ImageFolderReads(FALSE)]

----------------------------------------------------------------------------
(* Loaders *)

Loader(kind, dataset, batch_size, shuffle, num_workers, pin_memory) ==
    [kind |-> kind, dataset |-> dataset, batch_size |-> batch_size,
     shuffle |-> shuffle, num_workers |-> num_workers, pin_memory |-> pin_memory]
NoLoader == Loader("Unbound", Unbound, None, FALSE, None, FALSE)

\* torch.utils.data.DataLoader(dataset, batch_size=, shuffle=, num_workers=,
\* pin_memory=True) as the three call sites use it.  The constructor compares
\* num_workers with 0, builds a RandomSampler when shuffle is set (which takes
\* len(dataset) and rejects a length of 0) and a BatchSampler (which rejects
\* a batch size that is not a positive int).
DataLoader(dataset, batch_size, shuffle, num_workers) ==
    LET err ==
          IF ~IsInt(num_workers) THEN "TypeError"
          ELSE IF num_workers.v < 0 THEN "ValueError"
          ELSE IF shuffle /\ dataset.kind = "None" THEN "TypeError"
          ELSE IF shuffle /\ DsLen(dataset) = 0 THEN "ValueError"
          ELSE IF ~IsInt(batch_size) THEN "ValueError"
          ELSE IF batch_size.v <= 0 THEN "ValueError"
          ELSE "none"
    IN  [err |-> err,
         loader |-> IF err = "none"
                    THEN Loader("DataLoader", dataset, batch_size, shuffle,
                                num_workers, TRUE)
                    ELSE NoLoader]

\* Variant: an unrecognized dataset_type falls through to the archive reader.
DispatchFallback(dataset_type) ==
    IF dataset_type = "imagefolder" THEN "imagefolder" ELSE "cifar100"

\* The if / elif / else on dataset_type.
Dispatch(dataset_type) ==
    IF dataset_type = "default" THEN "cifar100"
    ELSE IF dataset_type = "imagefolder" THEN "imagefolder"
    ELSE "invalid"

\* shuffle= of the three DataLoader calls.
TrainShuffle(shuffle) == shuffle
ValShuffle(shuffle) == shuffle
\* Variant: the test loader takes the caller's flag like the other two.
TestShuffleAsCaller(shuffle) == shuffle
TestShuffle(shuffle) == FALSE

\* Variant: the steps computed from the whole train pool.
StepsFromPool(train_ds, batch_size) == FloorDiv(pool, batch_size.v)

\* steps_per_epoch = len(train_dataset) // batch_size
StepsPerEpoch(train_ds, batch_size) == FloorDiv(DsLen(train_ds), batch_size.v)

Outcome(err, rd, trd, vd, ted, trl, vl, tel, steps) ==
    [error |-> err, reads |-> rd, train_dataset |-> trd, val_dataset |-> vd,
     test_dataset |-> ted, train_loader |-> trl, val_loader |-> vl,
     test_loader |-> tel, steps_per_epoch |-> steps]

\* get_cifar100_loaders with parameters a, perm being the permutation
\* random_split draws: the locals and the files read when the call ends.
get_cifar100_loaders(a, perm) ==
    LET backend == Dispatch(a.dataset_type)
        d == IF backend = "imagefolder"
             THEN get_imagefolder_dataset(a.train_transform, a.test_transform,
                                          a.val_size, perm)
             ELSE get_cifar100_dataset(a.train_transform, a.test_transform,
                                       a.val_size, perm)
        trl == DataLoader(d.train, a.batch_size, TrainShuffle(a.shuffle), a.num_workers)
        vl == DataLoader(d.val, a.batch_size, ValShuffle(a.shuffle), a.num_workers)
        tel == DataLoader(d.test, a.batch_size, TestShuffle(a.shuffle), a.num_workers)
    IN  IF backend = "invalid"
        THEN Outcome("ValueError", <<>>, Unbound, Unbound, Unbound,
                     NoLoader, NoLoader, NoLoader, None)
        ELSE IF d.err # "none"
        THEN Outcome(d.err, d.reads, d.train, d.val, d.test,
                     NoLoader, NoLoader, NoLoader, None)
        ELSE IF trl.err # "none"
        THEN Outcome(trl.err, d.reads, d.train, d.val, d.test,
                     NoLoader, NoLoader, NoLoader, None)
        ELSE IF vl.err # "none"
        THEN Outcome(vl.err, d.reads, d.train, d.val, d.test,
                     trl.loader, NoLoader, NoLoader, None)
        ELSE IF tel.err # "none"
        THEN Outcome(tel.err, d.reads, d.train, d.val, d.test,
                     trl.loader, vl.loader, NoLoader, None)
        ELSE Outcome("none", d.reads, d.train, d.val, d.test,
                     trl.loader, vl.loader, tel.loader,
                     IF a.return_steps
                     THEN IntVal(StepsPerEpoch(d.train, a.batch_size))
                     ELSE None)

\* One full pass over a loader: the records in the order it yields them.
PassOrders(loader) ==
    LET idx == loader.dataset.indices
    IN  IF loader.shuffle
        THEN {[i \in 1..Len(idx) |-> idx[p[i]]] : p \in Perms(Len(idx))}
        ELSE {idx}

----------------------------------------------------------------------------
(* Inputs of the loader builder *)

ValSizes == { <<-1, 2>>, <<0, 1>>, <<1, 10>>, <<1, 4>>, <<1, 3>>, <<1, 2>>,
              <<2, 3>>, <<1, 1>>, <<3, 2>> }
DatasetTypes == {"default", "imagefolder", "bogus"}
DataDir == Str(1)
WeightsPath == Str(2)
TrainTf == Tf(1)
TestTf == Tf(2)

Args(root, ttf, stf, bs, nw, vs, sh, dt, rs) ==
    [root |-> root, train_transform |-> ttf, test_transform |-> stf,
     batch_size |-> bs, num_workers |-> nw, val_size |-> vs, shuffle |-> sh,
     dataset_type |-> dt, return_steps |-> rs]
NoArgs == Args(None, None, None, None, None, <<0, 1>>, FALSE, "", FALSE)

CallArgs ==
    { Args(DataDir, TrainTf, TestTf, IntVal(bs), IntVal(4), vs, sh, dt, rs) :
        bs \in 1..MaxBatch, vs \in ValSizes, sh \in BOOLEAN,
        dt \in DatasetTypes, rs \in BOOLEAN }

----------------------------------------------------------------------------
(* Spec: one call of get_cifar100_loaders, then passes over its loaders *)

LoaderInit ==
    /\ pc = "idle"
    /\ pool \in 1..MaxPool
    /\ tpool \in 1..MaxTest
    /\ args = NoArgs
    /\ reads = <<>>
    /\ train_dataset = Unbound /\ val_dataset = Unbound /\ test_dataset = Unbound
    /\ train_loader = NoLoader /\ val_loader = NoLoader /\ test_loader = NoLoader
    /\ steps_per_epoch = None
    /\ error = "none"
    /\ test_passes = <<>>
    /\ train_pass = <<>>

LoaderIdle ==
    /\ pc = "unused"
    /\ pool = 0 /\ tpool = 0
    /\ args = NoArgs
    /\ reads = <<>>
    /\ train_dataset = Unbound /\ val_dataset = Unbound /\ test_dataset = Unbound
    /\ train_loader = NoLoader /\ val_loader = NoLoader /\ test_loader = NoLoader
    /\ steps_per_epoch = None
    /\ error = "none"
    /\ test_passes = <<>>
    /\ train_pass = <<>>

Call ==
    /\ pc = "idle"
    /\ \E a \in CallArgs, perm \in Perms(pool) :
         LET o == get_cifar100_loaders(a, perm)
         IN  /\ args' = a
             /\ reads' = o.reads
             /\ train_dataset' = o.train_dataset
             /\ val_dataset' = o.val_dataset
             /\ test_dataset' = o.test_dataset
             /\ train_loader' = o.train_loader
             /\ val_loader' = o.val_loader
             /\ test_loader' = o.test_loader
             /\ steps_per_epoch' = o.steps_per_epoch
             /\ error' = o.error
             /\ pc' = IF o.error = "none" THEN "returned" ELSE "raised"
    /\ UNCHANGED <<pool, tpool, test_passes, train_pass, datasetVars, trainVars>>

IterTest ==
    /\ pc = "returned"
    /\ Len(test_passes) < MaxPasses
    /\ \E order \in PassOrders(test_loader) :
         test_passes' = Append(test_passes, order)
    /\ UNCHANGED <<pc, pool, tpool, args, reads, train_dataset, val_dataset,
                   test_dataset, train_loader, val_loader, test_loader,
                   steps_per_epoch, error, train_pass, datasetVars, trainVars>>

IterTrain ==
    /\ pc = "returned"
    /\ train_pass = <<>>
    /\ \E order \in PassOrders(train_loader) :
         train_pass' = order
    /\ UNCHANGED <<pc, pool, tpool, args, reads, train_dataset, val_dataset,
                   test_dataset, train_loader, val_loader, test_loader,
                   steps_per_epoch, error, test_passes, datasetVars, trainVars>>

----------------------------------------------------------------------------
(* SpecDataset: a CIFAR100 object *)

\* A record of an archive: its image row and its fine label.
RawRecords == { [px |-> 1, label |-> 0], [px |-> 2, label |-> 1],
                [px |-> 2, label |-> 0] }
SeqsUpTo(S, n) == UNION {[1..k -> S] : k \in 1..n}

\* An image value: the array stored by _load_data, the PIL image built from
\* it, or the value of the transform (aug: its random augmentation).
Image(form, px, aug) == [form |-> form, px |-> px, aug |-> aug]
NoItem == [img |-> Image("none", 0, 0), target |-> -1]

\* _load_data(name): the archive's data rows, reshaped and transposed to
\* height-width-channel arrays, and its fine labels.
LoadData(name) ==
    [data |-> [i \in 1..Len(archive[name]) |->
                  Image("array", archive[name][i].px, 0)],
     labels |-> [i \in 1..Len(archive[name]) |-> archive[name][i].label]]

\* Image.fromarray(img)
FromArray(img) == Image("PIL", img.px, 0)

\* Variant: __init__ applies the transform to every image it loads.
EagerTransformCalls(data, transform) ==
    IF transform # None
    THEN [i \in 1..Len(data) |-> FromArray(data[i])]
    ELSE <<>>

\* The invocations of the transform that __init__ makes: none.
InitTransformCalls(data, transform) == <<>>

\* The invocations of the transform that one __getitem__ makes.
GetItemTransformCalls(img, transform) ==
    IF transform # None THEN <<img>> ELSE <<>>

DsObject(built, train, transform, trd, trl, ted, tel) ==
    [built |-> built, train |-> train, transform |-> transform,
     train_data |-> trd, train_labels |-> trl,
     test_data |-> ted, test_labels |-> tel]

DatasetInit ==
    /\ ds = DsObject(FALSE, FALSE, None, <<>>, <<>>, <<>>, <<>>)
    /\ archive \in [train : SeqsUpTo(RawRecords, MaxImages),
                    test : SeqsUpTo(RawRecords, 1)]
    /\ tf_calls = <<>>
    /\ accesses = <<>>
    /\ item = NoItem

DatasetIdle ==
    /\ ds = DsObject(FALSE, FALSE, None, <<>>, <<>>, <<>>, <<>>)
    /\ archive = [train |-> <<>>, test |-> <<>>]
    /\ tf_calls = <<>>
    /\ accesses = <<>>
    /\ item = NoItem

\* CIFAR100.__init__(root, train, transform)
Construct ==
    /\ ~ds.built
    /\ \E train \in BOOLEAN, transform \in {None, TrainTf} :
         LET loaded == LoadData(IF train THEN "train" ELSE "test")
         IN  /\ ds' = IF train
                      THEN DsObject(TRUE, train, transform,
                                    loaded.data, loaded.labels, <<>>, <<>>)
                      ELSE DsObject(TRUE, train, transform,
                                    <<>>, <<>>, loaded.data, loaded.labels)
             /\ tf_calls' = tf_calls \o InitTransformCalls(loaded.data, transform)
    /\ UNCHANGED <<archive, accesses, item, loaderVars, trainVars>>

DsData == IF ds.train THEN ds.train_data ELSE ds.test_data
DsLabels == IF ds.train THEN ds.train_labels ELSE ds.test_labels

\* CIFAR100.__getitem__(index)
GetItem ==
    /\ ds.built
    /\ Len(accesses) < MaxAccess
    /\ \E index \in 1..Len(DsData), aug \in {0, 1} :
         LET img == FromArray(DsData[index])
             calls == GetItemTransformCalls(img, ds.transform)
             out == IF ds.transform # None
                    THEN Image("transformed", img.px, aug)
                    ELSE img
         IN  /\ tf_calls' = tf_calls \o calls
             /\ accesses' = Append(accesses, index)
             /\ item' = [img |-> out, target |-> DsLabels[index]]
    /\ UNCHANGED <<ds, archive, loaderVars, trainVars>>

----------------------------------------------------------------------------
(* SpecTrain: one run of train.py *)

CfgBatchSize == 4
CfgNumWorkers == 4
DefaultBatchSize == 128
DefaultNumWorkers == 4
TrainValSize == <<1, 10>>

\* get_cifar100_transforms() is not part of the sources at hand; it returns
\* the pair of transform objects.
get_cifar100_transforms == <<TrainTf, TestTf>>

\* The binding of a call get_cifar100_loaders(*pos, val_size=vs) to the
\* parameters of the signature, in their order, with the defaults.
Positional(pos, i, default) == IF i <= Len(pos) THEN pos[i] ELSE default
BindLoaders(pos, vs) ==
    Args(Positional(pos, 1, None),
         Positional(pos, 2, None),
         Positional(pos, 3, None),
         Positional(pos, 4, IntVal(DefaultBatchSize)),
         Positional(pos, 5, IntVal(DefaultNumWorkers)),
         vs, TRUE, "default", FALSE)

\* The positional arguments of train()'s call, in the order written.
TrainCallArgs(cfg, transforms) ==
    << cfg.data_dir, cfg.batch_size, cfg.num_workers,
       transforms[1], transforms[2] >>

EngineCall(name, ckpt) == [call |-> name, ckpt_path |-> ckpt]

\* The trainer calls of train(), in order.
EngineCalls(test_mode, resume, weights) ==
    (IF ~test_mode
     THEN (IF resume THEN <<EngineCall("fit", weights)>> ELSE <<>>)
          \o <<EngineCall("fit", None)>>
     ELSE <<>>)
    \o <<EngineCall("test", None)>>

\* The check of __main__ before train() is called.
MissingWeights(a) == (a.resume \/ a.test_only) /\ a.weights = None

CliArgs ==
    [data_dir : {DataDir},
     batch_size : {IntVal(b) : b \in (1..MaxBatch) \cup {CfgBatchSize}},
     num_workers : {IntVal(0), IntVal(CfgNumWorkers)},
     rich_progress : BOOLEAN,
     weights : {None, WeightsPath},
     resume : BOOLEAN,
     test_only : BOOLEAN]

TrainInit ==
    /\ t_pc = "parsed"
    /\ cli \in CliArgs
    /\ bound = NoArgs
    /\ engine = <<>>
    /\ t_error = "none"

TrainIdle ==
    /\ t_pc = "unused"
    /\ cli = [data_dir |-> None, batch_size |-> None, num_workers |-> None,
              rich_progress |-> FALSE, weights |-> None, resume |-> FALSE,
              test_only |-> FALSE]
    /\ bound = NoArgs
    /\ engine = <<>>
    /\ t_error = "none"

\* __main__ raises before train() is called.
MainRejects ==
    /\ t_pc = "parsed"
    /\ MissingWeights(cli)
    /\ t_pc' = "raised"
    /\ t_error' = "ValueError"
    /\ UNCHANGED <<cli, bound, engine, loaderVars, datasetVars>>

\* __main__ calls train(cfg, ..., test_only, resume, weights).
MainTrain ==
    /\ t_pc = "parsed"
    /\ ~MissingWeights(cli)
    /\ \E perm \in Perms(pool) :
         LET weights == IF cli.resume \/ cli.test_only THEN cli.weights ELSE None
             b == BindLoaders(TrainCallArgs(cli, get_cifar100_transforms),
                              TrainValSize)
             o == get_cifar100_loaders(b, perm)
         IN  /\ bound' = b
             /\ IF o.error # "none"
                THEN /\ t_pc' = "raised"
                     /\ t_error' = o.error
                     /\ engine' = engine
                ELSE /\ t_pc' = "done"
                     /\ t_error' = "none"
                     /\ engine' = engine \o EngineCalls(cli.test_only, cli.resume, weights)
    /\ UNCHANGED <<cli, loaderVars, datasetVars>>

----------------------------------------------------------------------------
(* Specifications *)

Init == LoaderInit /\ DatasetIdle /\ TrainIdle
Next == Call \/ IterTest \/ IterTrain
Spec == Init /\ [][Next]_vars

InitDataset == LoaderIdle /\ DatasetInit /\ TrainIdle
NextDataset == Construct \/ GetItem
SpecDataset == InitDataset /\ [][NextDataset]_vars

TrainDisk ==
    /\ pc = "unused"
    /\ pool \in 1..MaxPool /\ tpool \in 1..MaxTest
    /\ args = NoArgs
    /\ reads = <<>>
    /\ train_dataset = Unbound /\ val_dataset = Unbound /\ test_dataset = Unbound
    /\ train_loader = NoLoader /\ val_loader = NoLoader /\ test_loader = NoLoader
    /\ steps_per_epoch = None
    /\ error = "none"
    /\ test_passes = <<>>
    /\ train_pass = <<>>

InitTrain == TrainDisk /\ DatasetIdle /\ TrainInit
NextTrain == MainRejects \/ MainTrain
SpecTrain == InitTrain /\ [][NextTrain]_vars

----------------------------------------------------------------------------
(* Claims about get_cifar100_loaders (Spec) *)

Finished == pc \in {"returned", "raised"}
ValidType == args.dataset_type \in {"default", "imagefolder"}
ValNum == args.val_size[1]
ValDen == args.val_size[2]

C2_ValHandleAbsent ==
    (Finished /\ ValidType /\ ValNum = 0) =>
        (pc = "returned" /\ val_loader.kind # "DataLoader")

\* C3: the test loader is unshuffled whatever the caller's flag, so all full
\* passes over it yield the test records in the same order; the train and
\* validation loaders carry the caller's flag.
C3_TestNeverShuffles ==
    pc = "returned" =>
        /\ test_loader.shuffle = FALSE
        /\ train_loader.shuffle = args.shuffle
        /\ val_loader.shuffle = args.shuffle
        /\ \A i, j \in 1..Len(test_passes) : test_passes[i] = test_passes[j]

C3_Witness ==
    /\ pc = "returned" /\ args.shuffle
    /\ tpool >= 2 /\ Len(test_passes) >= 2
    /\ train_pass # <<>> /\ train_pass # train_dataset.indices

\* C4: a dataset_type other than "default" and "imagefolder" ends the call
\* with ValueError with no file read, no dataset and no loader built;
\* "default" reads only the archive files, "imagefolder" only scans the
\* class directories.
C4_InvalidTypeRejectedFirst ==
    Finished =>
        /\ ~ValidType =>
              /\ pc = "raised" /\ error = "ValueError"
              /\ reads = <<>>
              /\ train_dataset = Unbound /\ val_dataset = Unbound
              /\ test_dataset = Unbound
              /\ train_loader = NoLoader /\ val_loader = NoLoader
              /\ test_loader = NoLoader
        /\ args.dataset_type = "default" =>
              /\ reads # <<>>
              /\ Range(reads) \subseteq {"cifar-100-python/train",
                                         "cifar-100-python/test",
                                         "cifar-100-python/meta"}
        /\ args.dataset_type = "imagefolder" =>
              /\ reads # <<>>
              /\ Range(reads) \subseteq {"train/", "test/"}

C4_Witness ==
    /\ pc = "raised" /\ args.dataset_type = "bogus" /\ error = "ValueError"

\* C5: when return_steps is set, the returned steps_per_epoch is
\* floor(len(train_dataset) / batch_size) for the train subset left after the
\* validation split.
C5_StepsFromTrainSubset ==
    pc = "returned" =>
        IF args.return_steps
        THEN /\ IsInt(steps_per_epoch)
             /\ steps_per_epoch.v * args.batch_size.v <= DsLen(train_dataset)
             /\ DsLen(train_dataset) < (steps_per_epoch.v + 1) * args.batch_size.v
        ELSE steps_per_epoch = None

C5_Witness ==
    /\ pc = "returned" /\ args.return_steps
    /\ DsLen(val_dataset) >= 1
    /\ args.batch_size.v = 2
    /\ steps_per_epoch.v # pool \div args.batch_size.v

\* C6: a val_size outside [0,1] ends the call with an invalid-argument error
\* and no train / validation / test subsets; no split is returned.
C6_OutOfRangeRejected ==
    (Finished /\ ValidType /\ (ValNum < 0 \/ ValNum > ValDen)) =>
        /\ pc = "raised" /\ error = "ValueError"
        /\ train_dataset = Unbound /\ val_dataset = Unbound
        /\ test_dataset = Unbound

----------------------------------------------------------------------------
(* Claim about the CIFAR100 object (SpecDataset) *)

Split == IF ds.train THEN "train" ELSE "test"

\* C7: with a transform supplied, the transform has been invoked exactly once
\* per access, on the image of the accessed index, and never by the
\* constructor; the stored raw images stay those of the archive.
C7_TransformOncePerAccess ==
    (ds.built /\ ds.transform # None) =>
        /\ Len(tf_calls) = Len(accesses)
        /\ \A k \in 1..Len(accesses) :
              /\ tf_calls[k].form = "PIL"
              /\ tf_calls[k].px = archive[Split][accesses[k]].px
        /\ Len(DsData) = Len(archive[Split])
        /\ \A i \in 1..Len(DsData) :
              /\ DsData[i].form = "array"
              /\ DsData[i].px = archive[Split][i].px

C7_Witness ==
    /\ ds.built /\ ds.transform # None /\ ds.train
    /\ Len(accesses) >= 3
    /\ accesses[1] = accesses[2] /\ accesses[2] # accesses[3]
    /\ archive["train"][1].px # archive["train"][2].px
    /\ item.img.form = "transformed"

----------------------------------------------------------------------------
(* Claims about train.py (SpecTrain) *)

TrainCalled == t_pc # "parsed" /\ bound # NoArgs
TestCalls == {i \in 1..Len(engine) : engine[i].call = "test"}

\* C8: in a run that calls train(), test is invoked exactly once and after
\* every fit call; with test_only the single test call is the only engine
\* call.
C8_TestOnceAfterFits ==
    TrainCalled =>
        /\ Cardinality(TestCalls) = 1
        /\ engine[Len(engine)].call = "test"
        /\ cli.test_only => engine = <<EngineCall("test", None)>>

\* C9: each argument of train()'s call of get_cifar100_loaders reaches the
\* parameter of the same meaning: data dir, batch size, worker count and the
\* train / test transforms.
C9_ArgsReachParams ==
    TrainCalled =>
        /\ bound.root = cli.data_dir
        /\ bound.batch_size = cli.batch_size
        /\ bound.num_workers = cli.num_workers
        /\ bound.train_transform = get_cifar100_transforms[1]
        /\ bound.test_transform = get_cifar100_transforms[2]

\* C10: a non-test run of train() with resume calls fit with the checkpoint
\* path, then fit without it, then test; without resume it calls fit once,
\* then test.
C10_DoubleFitOnResume ==
    (TrainCalled /\ ~cli.test_only) =>
        IF cli.resume
        THEN engine = << EngineCall("fit", cli.weights), EngineCall("fit", None),
                         EngineCall("test", None) >>
        ELSE engine = << EngineCall("fit", None), EngineCall("test", None) >>

====
